---- MODULE Spec2Model ----
(***************************************************************************)
(* Model of xeisd/components/parser.py: the stripped-dialect parsers       *)
(* (parse_saxs_data, parse_cs_data, parse_nmrstar_data), the uncertainty   *)
(* merger (parse_bc_errors) and the orchestrator (parse_data).             *)
(*                                                                         *)
(* Text is a sequence of lexical atoms: the separator characters           *)
(* "," "." "_" " " "\n" "+" "-", single digits, and separator-free words.  *)
(* The string operations of the source (split, strip, in, float) are       *)
(* computed on these sequences.  A file is the sequence of its lines as    *)
(* readlines() returns them, each line keeping its trailing "\n".          *)
(* Offsets are Python's (zero-based); a sequence is indexed at offset+1.   *)
(***************************************************************************)
EXTENDS Integers, Sequences, FiniteSets, TLC

VARIABLES file, pcall, pres,
          filenames, mode, bc_errors, ret, default_bc_errors, custom, bc_file

vars == <<file, pcall, pres, filenames, mode, bc_errors, ret, default_bc_errors, custom, bc_file>>

pvars == <<file, pcall, pres>>

ovars == <<filenames, mode, bc_errors, ret, default_bc_errors, custom, bc_file>>

mvars == <<default_bc_errors, custom, bc_file>>

-----------------------------------------------------------------------------
(* Names imported from xeisd.components *)

saxs_name == "saxs"

cs_name == "cs"

fret_name == "fret"

jc_name == "jc"

noe_name == "noe"

pre_name == "pre"

rdc_name == "rdc"

rh_name == "rh"

exp_idx == <<"index">>

parse_mode_exp == "exp"

parse_mode_back == "bc"

None == "None"

Unset == -1

-----------------------------------------------------------------------------
(* Text primitives *)

Whitespace == {" ", "\n", "\t"}

Digits == {"0", "1", "2", "3", "4", "5", "6", "7", "8", "9"}

DigitVal(d) == CHOOSE n \in 0..9 : <<"0", "1", "2", "3", "4", "5", "6", "7", "8", "9">>[n + 1] = d

RECURSIVE SplitFrom(_, _, _, _)
SplitFrom(s, seps, i, cur) ==
  IF i > Len(s) THEN <<cur>>
  ELSE IF s[i] \in seps THEN <<cur>> \o SplitFrom(s, seps, i + 1, <<>>)
  ELSE SplitFrom(s, seps, i + 1, Append(cur, s[i]))

\* str.split(sep): the pieces between the separators, empty pieces kept
split_sep(s, sep) == SplitFrom(s, {sep}, 1, <<>>)

\* str.split(): the pieces between runs of whitespace, empty pieces dropped
split_ws(s) == SelectSeq(SplitFrom(s, Whitespace, 1, <<>>), LAMBDA p : p # <<>>)

RECURSIVE strip(_)
\* str.strip(): leading and trailing whitespace removed
strip(s) ==
  IF s = <<>> THEN s
  ELSE IF s[1] \in Whitespace THEN strip(Tail(s))
  ELSE IF s[Len(s)] \in Whitespace THEN strip(SubSeq(s, 1, Len(s) - 1))
  ELSE s

\* c in s
contains(s, c) == \E i \in 1..Len(s) : s[i] = c

RECURSIVE DigitsVal(_)
DigitsVal(s) == IF s = <<>> THEN 0 ELSE 10 * DigitsVal(SubSeq(s, 1, Len(s) - 1)) + DigitVal(s[Len(s)])

AllDigits(s) == \A i \in 1..Len(s) : s[i] \in Digits

Unsigned(tok) == IF tok # <<>> /\ tok[1] \in {"+", "-"} THEN Tail(tok) ELSE tok

\* float(text) succeeds: [sign] digits [. digits], at least one digit
IsFloatText(tok) ==
  LET parts == split_sep(Unsigned(tok), ".")
  IN /\ Len(parts) \in {1, 2}
     /\ \A k \in 1..Len(parts) : AllDigits(parts[k])
     /\ \E k \in 1..Len(parts) : parts[k] # <<>>

Pow10(k) == IF k = 0 THEN 1 ELSE IF k = 1 THEN 10 ELSE IF k = 2 THEN 100 ELSE 1000

\* the number float(text) returns, in thousandths
FloatVal(tok) ==
  LET parts == split_sep(Unsigned(tok), ".")
      frac == IF Len(parts) = 2 THEN SubSeq(parts[2], 1, IF Len(parts[2]) < 3 THEN Len(parts[2]) ELSE 3) ELSE <<>>
      mag == 1000 * DigitsVal(parts[1]) + DigitsVal(frac) * Pow10(3 - Len(frac))
  IN IF tok[1] = "-" THEN 0 - mag ELSE mag

Raise(e) == [exc |-> e, table |-> <<>>]

Return(t) == [exc |-> "none", table |-> t]

-----------------------------------------------------------------------------
(* Format detection shared by the three stripped-dialect parsers *)

\* a first line that is the column name and nothing else
IsGenericHeader_WholeLine(lines) == strip(lines[1]) = exp_idx

\* first = lines[0].split(','); first[0] == exp_idx
IsGenericHeader(lines) == split_sep(lines[1], ",")[1] = exp_idx

-----------------------------------------------------------------------------
(* Field names looked for by the header scans *)

Val == <<"Val">>

Val_err == <<"Val", "_", "err">>

Val_max == <<"Val", "_", "max">>

Val_min == <<"Val", "_", "min">>

Atom_ID == <<"Atom", "_", "ID">>

NoOffsets == [data_idx |-> Unset, error_idx |-> Unset, atom_idx |-> Unset,
              max_idx |-> Unset, min_idx |-> Unset, start_idx |-> Unset, exc |-> "none"]

\* line.split(".")[1].strip(), or IndexError when the line holds no "."
HasDtype(line) == Len(split_sep(line, ".")) >= 2

Dtype(line) == strip(split_sep(line, ".")[2])

RECURSIVE scan_cs(_, _, _)
\* parse_cs_data's header loop from line offset i on
scan_cs(lines, i, o) ==
  IF i >= Len(lines) THEN o
  ELSE LET line == lines[i + 1] IN
    IF contains(line, "_")
    THEN IF ~HasDtype(line) THEN [o EXCEPT !.exc = "IndexError"]
         ELSE LET dtype == Dtype(line) IN
              scan_cs(lines, i + 1,
                      IF dtype = Val THEN [o EXCEPT !.data_idx = i]
                      ELSE IF dtype = Val_err THEN [o EXCEPT !.error_idx = i]
                      ELSE IF dtype = Atom_ID THEN [o EXCEPT !.atom_idx = i]
                      ELSE o)
    ELSE [o EXCEPT !.start_idx = i]

WithBounds(type) == type = noe_name \/ type = pre_name

RECURSIVE scan_nmrstar(_, _, _, _)
\* parse_nmrstar_data's header loop from line offset i on
scan_nmrstar(lines, type, i, o) ==
  IF i >= Len(lines) THEN o
  ELSE LET line == lines[i + 1] IN
    IF contains(line, "_")
    THEN IF ~HasDtype(line) THEN [o EXCEPT !.exc = "IndexError"]
         ELSE LET dtype == Dtype(line)
                  o1 == IF dtype = Val THEN [o EXCEPT !.data_idx = i]
                        ELSE IF dtype = Val_err THEN [o EXCEPT !.error_idx = i]
                        ELSE o
                  o2 == IF WithBounds(type)
                        THEN IF dtype = Val_max THEN [o1 EXCEPT !.max_idx = i]
                             ELSE IF dtype = Val_min THEN [o1 EXCEPT !.min_idx = i]
                             ELSE o1
                        ELSE o1
              IN scan_nmrstar(lines, type, i + 1, o2)
    ELSE [o EXCEPT !.start_idx = i]

-----------------------------------------------------------------------------
(* Positional extraction from one whitespace-split data line *)

\* what reading splitted[k] raises: k unset is an unbound local, k past the end an IndexError
FieldExc(splitted, k) ==
  IF k = Unset THEN "UnboundLocalError"
  ELSE IF k >= Len(splitted) THEN "IndexError"
  ELSE "none"

\* what float(tok) raises
\* the first exception of a sequence of steps
FirstExc(es) ==
  IF \A k \in 1..Len(es) : es[k] = "none" THEN "none"
  ELSE es[CHOOSE k \in 1..Len(es) : es[k] # "none" /\ \A j \in 1..(k - 1) : es[j] = "none"]

\* float(splitted[k]) as [exc, val]; float raises ValueError on text that is no number
NumField(splitted, k) ==
  LET e == FieldExc(splitted, k) IN
  IF e # "none" THEN [exc |-> e, val |-> 0]
  ELSE IF ~IsFloatText(splitted[k + 1]) THEN [exc |-> "ValueError", val |-> 0]
  ELSE [exc |-> "none", val |-> FloatVal(splitted[k + 1])]

\* float(tok) with no placeholder replaced
BoundVal_NoPlaceholder(tok) ==
  IF ~IsFloatText(tok) THEN [exc |-> "ValueError", val |-> 0]
  ELSE [exc |-> "none", val |-> FloatVal(tok)]

\* if tok == ".": tok = 0.0, then float(tok), as [exc, val]
BoundVal(tok) ==
  IF tok = <<".">> THEN [exc |-> "none", val |-> 0]
  ELSE IF ~IsFloatText(tok) THEN [exc |-> "ValueError", val |-> 0]
  ELSE [exc |-> "none", val |-> FloatVal(tok)]

\* one pass of parse_cs_data's row loop, as [exc, row]
cs_row(splitted, idx, o) ==
  LET ea == FieldExc(splitted, o.atom_idx)
      v == NumField(splitted, o.data_idx)
      e == NumField(splitted, o.error_idx)
      exc == FirstExc(<<ea, v.exc, e.exc>>)
  IN IF exc # "none" THEN [exc |-> exc, row |-> <<>>]
     ELSE [exc |-> "none",
           row |-> [index |-> idx, atom |-> splitted[o.atom_idx + 1], value |-> v.val, error |-> e.val]]

\* one pass of parse_nmrstar_data's row loop, as [exc, row]
nmrstar_row(splitted, type, idx, o) ==
  LET v == NumField(splitted, o.data_idx)
      e == NumField(splitted, o.error_idx)
      exc1 == FirstExc(<<v.exc, e.exc>>)
  IN IF exc1 # "none" THEN [exc |-> exc1, row |-> <<>>]
     ELSE IF ~WithBounds(type)
     THEN [exc |-> "none", row |-> [index |-> idx, value |-> v.val, error |-> e.val]]
     ELSE LET exc2 == FirstExc(<<FieldExc(splitted, o.max_idx), FieldExc(splitted, o.min_idx)>>) IN
          IF exc2 # "none" THEN [exc |-> exc2, row |-> <<>>]
          ELSE LET max == BoundVal(splitted[o.max_idx + 1])
                   min == BoundVal(splitted[o.min_idx + 1])
                   exc3 == FirstExc(<<max.exc, min.exc>>)
               IN IF exc3 # "none" THEN [exc |-> exc3, row |-> <<>>]
                  ELSE [exc |-> "none",
                        row |-> [index |-> idx, dist_value |-> v.val, upper |-> max.val,
                                 lower |-> min.val, error |-> e.val]]

RECURSIVE rows_cs(_, _, _, _)
rows_cs(lines, idx, o, acc) ==
  IF idx >= Len(lines) THEN Return(acc)
  ELSE LET r == cs_row(split_ws(lines[idx + 1]), idx, o) IN
       IF r.exc # "none" THEN Raise(r.exc)
       ELSE rows_cs(lines, idx + 1, o, Append(acc, r.row))

RECURSIVE rows_nmrstar(_, _, _, _, _)
rows_nmrstar(lines, type, idx, o, acc) ==
  IF idx >= Len(lines) THEN Return(acc)
  ELSE LET r == nmrstar_row(split_ws(lines[idx + 1]), type, idx, o) IN
       IF r.exc # "none" THEN Raise(r.exc)
       ELSE rows_nmrstar(lines, type, idx + 1, o, Append(acc, r.row))

\* type(tok) is float, for a token that str.split returned: a str is never a float
TypeIsFloat(tok) == FALSE

RECURSIVE rows_saxs(_, _, _)
rows_saxs(lines, k, acc) ==
  IF k > Len(lines) THEN Return(acc)
  ELSE LET splitted == split_ws(lines[k]) IN
       IF splitted = <<>> THEN Raise("IndexError")
       ELSE IF TypeIsFloat(splitted[1])
       THEN IF Len(splitted) < 3 THEN Raise("IndexError")
            ELSE rows_saxs(lines, k + 1,
                           Append(acc, [index |-> splitted[1], value |-> splitted[2], error |-> splitted[3]]))
       ELSE rows_saxs(lines, k + 1, acc)

-----------------------------------------------------------------------------
(* The three stripped-dialect parsers, on the lines of an existing file *)

parse_saxs_data(lines) ==
  IF lines = <<>> THEN Raise("IndexError")
  ELSE IF IsGenericHeader(lines) THEN Raise("TypeError")
  ELSE rows_saxs(lines, 1, <<>>)

parse_cs_data(lines) ==
  IF lines = <<>> THEN Raise("IndexError")
  ELSE IF IsGenericHeader(lines) THEN Raise("TypeError")
  ELSE LET o == scan_cs(lines, 0, NoOffsets) IN
       IF o.exc # "none" THEN Raise(o.exc)
       ELSE IF o.start_idx = Unset THEN Raise("UnboundLocalError")
       ELSE rows_cs(lines, o.start_idx, o, <<>>)

parse_nmrstar_data(lines, type) ==
  IF lines = <<>> THEN Raise("IndexError")
  ELSE IF IsGenericHeader(lines) THEN Raise("TypeError")
  ELSE LET o == scan_nmrstar(lines, type, 0, NoOffsets) IN
       IF o.exc # "none" THEN Raise(o.exc)
       ELSE IF o.start_idx = Unset THEN Raise("UnboundLocalError")
       ELSE rows_nmrstar(lines, type, o.start_idx, o, <<>>)

-----------------------------------------------------------------------------
(* Input files of the parsers *)

MaxLines == 5

GenericHeader == <<"index", ",", "value", ",", "error", "\n">>

IndexOnlyHeader == <<"index", "\n">>

Meta(dtype) == <<"_", "Tag", ".">> \o dtype \o <<"\n">>

LoopLine == <<"loop", "_", "\n">>

MetaLines == {Meta(Val), Meta(Val_err), Meta(Val_max), Meta(Val_min), Meta(Atom_ID), LoopLine}

RowLines ==
  { <<"1", " ", "2", ".", "5", " ", "-", "0", ".", "1", " ", ".", " ", "3", "\n">>,
    <<"3", " ", "4", " ", "x", "_", "y", "\n">>,
    <<"\n">> }

\* sequences of pairwise different lines of S, of length n
RECURSIVE Arrangements(_, _)
Arrangements(S, n) ==
  IF n = 0 THEN {<<>>}
  ELSE {Append(a, x) : <<a, x>> \in {<<b, y>> \in Arrangements(S, n - 1) \X S : \A k \in 1..Len(b) : b[k] # y}}

RECURSIVE Tuples(_, _)
Tuples(S, n) == IF n = 0 THEN {<<>>} ELSE {Append(a, x) : <<a, x>> \in Tuples(S, n - 1) \X S}

\* h metadata lines, each field declared at most once, then n further lines
StrippedFiles(max) ==
  UNION {UNION {{hd \o body : <<hd, body>> \in Arrangements(MetaLines, h) \X Tuples(RowLines, n)}
                : n \in 0..(max - h)}
         : h \in 0..(IF max < Cardinality(MetaLines) THEN max ELSE Cardinality(MetaLines))}

\* a first line naming the columns, then any lines
GenericFiles(max) ==
  {<<g>> \o rest : <<g, rest>> \in {GenericHeader, IndexOnlyHeader} \X StrippedFiles(max - 1)}

Files == StrippedFiles(MaxLines) \cup GenericFiles(MaxLines)

NmrstarTypes == {None, noe_name, pre_name}

NoCall == [fn |-> "none", type |-> None]

NoResult == [exc |-> "none", table |-> <<>>]

NoCustom == [exc |-> "none", ref |-> "none"]

NoRet == [status |-> "none", exc |-> "none", parsed |-> <<>>, errlogs |-> <<>>]

-----------------------------------------------------------------------------
(* Specification of the parsers: a file is drawn, then one parser reads it *)

InitParsers ==
  /\ file \in Files
  /\ pcall = NoCall
  /\ pres = NoResult
  /\ filenames = <<>>
  /\ mode = "none"
  /\ bc_errors = <<>>
  /\ ret = NoRet
  /\ default_bc_errors = <<>>
  /\ custom = NoCustom
  /\ bc_file = "none"

CallParseSaxs ==
  /\ pcall = NoCall
  /\ pcall' = [fn |-> "parse_saxs_data", type |-> None]
  /\ pres' = parse_saxs_data(file)
  /\ UNCHANGED <<file, ovars>>

CallParseCs ==
  /\ pcall = NoCall
  /\ pcall' = [fn |-> "parse_cs_data", type |-> None]
  /\ pres' = parse_cs_data(file)
  /\ UNCHANGED <<file, ovars>>

CallParseNmrstar ==
  /\ pcall = NoCall
  /\ \E type \in NmrstarTypes :
       /\ pcall' = [fn |-> "parse_nmrstar_data", type |-> type]
       /\ pres' = parse_nmrstar_data(file, type)
  /\ UNCHANGED <<file, ovars>>

NextParsers == CallParseSaxs \/ CallParseCs \/ CallParseNmrstar

SpecParsers == InitParsers /\ [][NextParsers]_vars

-----------------------------------------------------------------------------
(* Properties of the parsers *)

\* the text of a line before its first comma
BeforeFirstComma(line) ==
  IF contains(line, ",")
  THEN SubSeq(line, 1, (CHOOSE k \in 1..Len(line) : line[k] = "," /\ \A j \in 1..(k - 1) : line[j] # ",") - 1)
  ELSE line

Called == pcall.fn # "none"

\* C3: a file whose first line, split on commas, starts with the alignment-index
\* column name makes each of the three parsers (parse_nmrstar_data with any type)
\* raise TypeError and nothing else, whatever the remaining lines hold.
C3_GenericHeaderRaisesTypeError ==
  (Called /\ file # <<>> /\ BeforeFirstComma(file[1]) = exp_idx)
    => (pres.exc = "TypeError" /\ pres.table = <<>>)

\* a generic header followed by a line on which the header scan would fail
C3_Witness ==
  /\ pcall.fn = "parse_nmrstar_data"
  /\ pcall.type = noe_name
  /\ Len(file) >= 3
  /\ file[1] = GenericHeader
  /\ file[2] = LoopLine
  /\ pres.exc = "TypeError"

\* the number of leading lines that hold the metadata marker
HeaderLen(lines) ==
  CHOOSE h \in 0..Len(lines) :
    /\ \A k \in 1..h : contains(lines[k], "_")
    /\ h = Len(lines) \/ ~contains(lines[h + 1], "_")

Declares(lines, dtype) == \E k \in 1..HeaderLen(lines) : lines[k] = Meta(dtype)

\* the zero-based line offset of the declaration of dtype
PosOf(lines, dtype) == (CHOOSE k \in 1..HeaderLen(lines) : lines[k] = Meta(dtype)) - 1

NumericAt(toks, k) == k < Len(toks) /\ IsFloatText(toks[k + 1])

BoundAt(toks, k) == k < Len(toks) /\ (toks[k + 1] = <<".">> \/ IsFloatText(toks[k + 1]))

\* header lines are field declarations, Val and Val_err among them, and every
\* data line holds numbers at the two declared positions
WellFormedRestraint(lines) ==
  /\ lines # <<>>
  /\ \A k \in 1..HeaderLen(lines) : \E d \in {Val, Val_err, Val_max, Val_min, Atom_ID} : lines[k] = Meta(d)
  /\ Declares(lines, Val) /\ Declares(lines, Val_err)
  /\ \A k \in (HeaderLen(lines) + 1)..Len(lines) :
       /\ NumericAt(split_ws(lines[k]), PosOf(lines, Val))
       /\ NumericAt(split_ws(lines[k]), PosOf(lines, Val_err))

RestraintRowsAsDeclared ==
  LET h == HeaderLen(file)
      n == Len(file) - h
  IN /\ pres.exc = "none"
     /\ Len(pres.table) = n
     /\ \A j \in 1..n :
          LET toks == split_ws(file[h + j]) IN
          /\ pres.table[j].index = h + j - 1
          /\ pres.table[j].value = FloatVal(toks[PosOf(file, Val) + 1])
          /\ pres.table[j].error = FloatVal(toks[PosOf(file, Val_err) + 1])

JcRdcCall == pcall.fn = "parse_nmrstar_data" /\ pcall.type = None

\* C8: for a J-coupling or RDC file of h declaration lines (Val and Val_err among
\* them) followed by n data lines with numbers at the two declared positions,
\* parse_nmrstar_data returns n rows, in file order, with index h..h+n-1 and the
\* value and error found at those positions.
C8_OneRowPerDataLine ==
  (JcRdcCall /\ WellFormedRestraint(file)) => RestraintRowsAsDeclared

\* the same with at least one data line
C8_OneRowPerDataLine_NonEmpty ==
  (JcRdcCall /\ WellFormedRestraint(file) /\ HeaderLen(file) < Len(file)) => RestraintRowsAsDeclared

C8_NonEmpty_Witness ==
  /\ JcRdcCall
  /\ WellFormedRestraint(file)
  /\ Len(pres.table) = 2
  /\ pres.table[2].index = 3

\* header-only file: the loop over the lines ends without binding start_idx
C8_HeaderOnly_Raises ==
  (JcRdcCall /\ WellFormedRestraint(file) /\ HeaderLen(file) = Len(file))
    => pres.exc = "UnboundLocalError"

WellFormedBounded(lines) ==
  /\ WellFormedRestraint(lines)
  /\ Declares(lines, Val_max) /\ Declares(lines, Val_min)
  /\ HeaderLen(lines) < Len(lines)
  /\ \A k \in (HeaderLen(lines) + 1)..Len(lines) :
       /\ BoundAt(split_ws(lines[k]), PosOf(lines, Val_max))
       /\ BoundAt(split_ws(lines[k]), PosOf(lines, Val_min))

BoundOf(tok) == IF tok = <<".">> THEN 0 ELSE FloatVal(tok)

NoePreCall == pcall.fn = "parse_nmrstar_data" /\ pcall.type \in {noe_name, pre_name}

\* C9: for a NOE or PRE file declaring Val, Val_err, Val_max and Val_min whose
\* data lines hold a number or the placeholder "." at the two bound positions,
\* parse_nmrstar_data returns one row per data line whose upper bound comes from
\* the Val_max position and lower bound from the Val_min position, 0.0 for the
\* placeholder and the field's number otherwise.
C9_PlaceholderBoundsAreZero ==
  (NoePreCall /\ WellFormedBounded(file))
    => /\ pres.exc = "none"
       /\ Len(pres.table) = Len(file) - HeaderLen(file)
       /\ \A j \in 1..Len(pres.table) :
            LET toks == split_ws(file[HeaderLen(file) + j]) IN
            /\ pres.table[j].upper = BoundOf(toks[PosOf(file, Val_max) + 1])
            /\ pres.table[j].lower = BoundOf(toks[PosOf(file, Val_min) + 1])

\* a row whose upper bound is the placeholder and whose lower bound is -0.1
C9_Witness ==
  /\ NoePreCall
  /\ WellFormedBounded(file)
  /\ pres.exc = "none"
  /\ split_ws(file[5])[PosOf(file, Val_max) + 1] = <<".">>
  /\ pres.table[1].upper = 0
  /\ pres.table[1].lower = 0 - 100

FirstTokenNumeric(line) == split_ws(line) # <<>> /\ IsFloatText(split_ws(line)[1])

\* C10: parse_saxs_data returns one row per line whose first whitespace-separated
\* token is numeric, and no row for any other line.
C10_RowPerNumericLine ==
  (pcall.fn = "parse_saxs_data" /\ pres.exc = "none")
    => Len(pres.table) = Cardinality({k \in 1..Len(file) : FirstTokenNumeric(file[k])})

\* what the code does instead: the table is always empty
C10_AlwaysEmpty ==
  (pcall.fn = "parse_saxs_data" /\ pres.exc = "none") => pres.table = <<>>

-----------------------------------------------------------------------------
(* The files the orchestrator is pointed at *)

Modules == {saxs_name, cs_name, fret_name, jc_name, noe_name, pre_name, rdc_name, rh_name}

MaxBatch == 2

TextFiles ==
  [p \in {"generic.csv", "ragged.csv", "full.star", "short.star"} |->
     CASE p = "generic.csv" -> <<GenericHeader, <<"1", ",", "2", ",", "3", "\n">>>>
       [] p = "ragged.csv" -> <<GenericHeader, <<"1", ",", "2", ",", "3", "\n">>,
                                <<"2", ",", "2", ",", "3", ",", "4", "\n">>>>
       [] p = "full.star" -> <<Meta(Atom_ID), Meta(Val), Meta(Val_err), Meta(Val_max), Meta(Val_min),
                               <<"CA", " ", "7", " ", "1", ".", "5", " ", "4", " ", ".", "\n">>>>
       [] p = "short.star" -> <<Meta(Val), Meta(Val_err), <<"1", " ", "2", ".", "5", "\n">>>>]

\* what json.load returns for each well-formed JSON file: the items of the top-level
\* object in file order, each value by its Python type
JsonFiles ==
  [p \in {"nested.json", "flat.json", "ints.json"} |->
     CASE p = "nested.json" -> <<<<"format", "dict">>, <<"conf1", "dict">>, <<"conf2", "dict">>>>
       [] p = "flat.json" -> <<<<"conf1", "float">>, <<"conf2", "float">>>>
       [] p = "ints.json" -> <<<<"conf1", "int">>, <<"conf2", "int">>>>]

MissingPath == "missing.txt"

ExpPaths == DOMAIN TextFiles \cup {MissingPath}

BcPaths == DOMAIN JsonFiles \cup {"generic.csv", MissingPath}

Exists(fpath) == fpath \in DOMAIN TextFiles \cup DOMAIN JsonFiles

\* batches of at most max entries <<module, path>>, no module twice, in iteration order
RECURSIVE Batches(_, _)
Batches(paths, max) ==
  IF max = 0 THEN {<<>>}
  ELSE Batches(paths, max - 1) \cup
       {Append(b, <<m, p>>) : <<b, m, p>> \in
          {<<c, n, q>> \in Batches(paths, max - 1) \X Modules \X paths :
             Len(c) = max - 1 /\ \A k \in 1..Len(c) : c[k][1] # n}}

-----------------------------------------------------------------------------
(* Library calls made by parse_data *)

\* open(fpath) followed by a stripped-dialect parser
WithFile(fpath, parsed_lines) == IF ~Exists(fpath) THEN Raise("FileNotFoundError") ELSE parsed_lines

NFields(line) == Len(split_sep(line, ","))

\* pd.read_csv(fpath, delimiter=','): blank lines are skipped; no line left is an
\* EmptyDataError; after the first data line, a line with more fields than the
\* line before it is a ParserError; else one row per line after the header
read_csv(fpath) ==
  IF ~Exists(fpath) \/ fpath \notin DOMAIN TextFiles THEN Raise("FileNotFoundError")
  ELSE LET L == SelectSeq(TextFiles[fpath], LAMBDA l : strip(l) # <<>>) IN
       IF L = <<>> THEN Raise("EmptyDataError")
       ELSE IF \E k \in 3..Len(L) : NFields(L[k]) > NFields(L[k - 1]) THEN Raise("ParserError")
       ELSE Return([k \in 1..(Len(L) - 1) |-> [csv |-> split_sep(strip(L[k + 1]), ",")]])

\* json.load(f) on an opened file: text that is no JSON document is a JSONDecodeError
json_load(fpath) ==
  IF fpath \in DOMAIN JsonFiles THEN [exc |-> "none", raw |-> JsonFiles[fpath]]
  ELSE [exc |-> "JSONDecodeError", raw |-> <<>>]

\* del raw[key]
del_key(raw, key) == SelectSeq(raw, LAMBDA it : it[1] # key)

has_key(raw, key) == \E k \in 1..Len(raw) : raw[k][1] = key

\* pd.DataFrame(raw, index=[0]).T when the first value is a float, else
\* pd.DataFrame(raw).T, which raises ValueError when every value is a scalar
tabulate(raw) ==
  IF raw[1][2] = "float" THEN Return([shape |-> "one column", rows |-> [k \in 1..Len(raw) |-> raw[k][1]]])
  ELSE IF \A k \in 1..Len(raw) : raw[k][2] \in {"float", "int"} THEN Raise("ValueError")
  ELSE Return([shape |-> "table", rows |-> [k \in 1..Len(raw) |-> raw[k][1]]])

-----------------------------------------------------------------------------
(* parse_data *)

jc_bc_mu == "jc_bc_mu"

Stack_Unnamed(name, data, sigma, mu) == [name |-> None, data |-> data, sigma |-> sigma, mu |-> mu]

Stack(name, data, sigma, mu) == [name |-> name, data |-> data, sigma |-> sigma, mu |-> mu]

\* parsed[module] = container
Put(parsed, module, container) ==
  [m \in DOMAIN parsed \cup {module} |-> IF m = module THEN container ELSE parsed[m]]

NoParsed == [m \in {} |-> None]

\* the key of a module in an uncertainty table: the module's name as text
Key(module) == <<module>>

\* the body of the try statement of the experimental loop, for the two modules read
\* as generic tables at once and the six read by a stripped-dialect parser
exp_try(module, fpath) ==
  IF module = saxs_name THEN WithFile(fpath, parse_saxs_data(TextFiles[fpath]))
  ELSE IF module = cs_name THEN WithFile(fpath, parse_cs_data(TextFiles[fpath]))
  ELSE IF module = fret_name THEN read_csv(fpath)
  ELSE IF module = jc_name THEN WithFile(fpath, parse_nmrstar_data(TextFiles[fpath], None))
  ELSE IF module = noe_name THEN WithFile(fpath, parse_nmrstar_data(TextFiles[fpath], noe_name))
  ELSE IF module = pre_name THEN WithFile(fpath, parse_nmrstar_data(TextFiles[fpath], pre_name))
  ELSE IF module = rdc_name THEN WithFile(fpath, parse_nmrstar_data(TextFiles[fpath], None))
  ELSE read_csv(fpath)

\* except Exception, for an exception of any class
ExpRecovers_Any(exc) == exc # "none"

\* except TypeError
ExpRecovers(exc) == exc = "TypeError"

\* the except clause of the experimental loop, t being the outcome of the try body:
\* on a recovered exception the same file is read as a generic table
exp_except(fpath, t) == IF ExpRecovers(t.exc) THEN read_csv(fpath) ELSE t

\* one pass of the experimental loop: the table to wrap, or the exception that leaves it
exp_pass(module, fpath) == exp_except(fpath, exp_try(module, fpath))

RECURSIVE exp_loop(_, _, _)
\* the end of a pass whose outcome is r: parsed[module] = Stack(module, data, None, None)
\* and the next pass, or the exception leaving parse_data
exp_store(fns, k, parsed, r) ==
  IF r.exc # "none"
  THEN [status |-> "raised", exc |-> r.exc, parsed |-> NoParsed, errlogs |-> <<>>]
  ELSE exp_loop(fns, k + 1, Put(parsed, fns[k][1], Stack(fns[k][1], r.table, None, None)))

exp_loop(fns, k, parsed) ==
  IF k > Len(fns) THEN [status |-> "returned", exc |-> "none", parsed |-> parsed, errlogs |-> <<>>]
  ELSE exp_store(fns, k, parsed, exp_pass(fns[k][1], fns[k][2]))

\* the mu of the container of a back-calculated module, whatever the module
bc_mu_Always(module) == jc_bc_mu

\* the mu of the container of a back-calculated module
bc_mu(module) == IF module = jc_name THEN jc_bc_mu ELSE None

\* the body of the try statement of the back-calculated loop, as [exc, container]
bc_try(module, fpath, errors) ==
  LET NoC == Stack(None, <<>>, None, None) IN
  IF ~Exists(fpath) THEN [exc |-> "FileNotFoundError", container |-> NoC]
  ELSE LET j == json_load(fpath) IN
    IF j.exc # "none" THEN [exc |-> j.exc, container |-> NoC]
    ELSE IF (module = pre_name \/ module = noe_name) /\ ~has_key(j.raw, "format")
    THEN [exc |-> "KeyError", container |-> NoC]
    ELSE LET raw == IF module = pre_name \/ module = noe_name THEN del_key(j.raw, "format") ELSE j.raw IN
      IF raw = <<>> THEN [exc |-> "IndexError", container |-> NoC]
      ELSE LET data == tabulate(raw) IN
        IF data.exc # "none" THEN [exc |-> data.exc, container |-> NoC]
        ELSE IF Key(module) \notin DOMAIN errors THEN [exc |-> "KeyError", container |-> NoC]
        ELSE [exc |-> "none", container |-> Stack(module, data.table, errors[Key(module)], bc_mu(module))]

\* an except clause that lets KeyError through
BcCatches_NotKeyError(exc) == exc \notin {"none", "KeyError"}

\* except Exception as e
BcCatches(exc) == exc # "none"

RECURSIVE bc_loop(_, _, _, _, _)
bc_loop(fns, errors, k, parsed, errlogs) ==
  IF k > Len(fns) THEN [status |-> "returned", exc |-> "none", parsed |-> parsed, errlogs |-> errlogs]
  ELSE LET r == bc_try(fns[k][1], fns[k][2], errors) IN
       IF r.exc = "none" THEN bc_loop(fns, errors, k + 1, Put(parsed, fns[k][1], r.container), errlogs)
       ELSE IF BcCatches(r.exc) THEN bc_loop(fns, errors, k + 1, parsed, Append(errlogs, r.exc))
       ELSE [status |-> "raised", exc |-> r.exc, parsed |-> NoParsed, errlogs |-> <<>>]

parse_data(fns, mode_, errors) ==
  IF mode_ = parse_mode_exp THEN exp_loop(fns, 1, NoParsed)
  ELSE bc_loop(fns, errors, 1, NoParsed, <<>>)

-----------------------------------------------------------------------------
(* The uncertainty tables *)

\* the process-wide default table as the package initialises it: one sigma per module
InitialDefault == [k \in {Key(m) : m \in Modules} |-> [kind |-> "default", of |-> k]]

Without(table, ms) == [k \in DOMAIN table \ {Key(m) : m \in ms} |-> table[k]]

\* tables a caller may pass as bc_errors: the default, or one of its own lacking entries
CallerTables(default) == {default, Without(default, {jc_name}), Without(default, {saxs_name, noe_name})}

-----------------------------------------------------------------------------
(* Specification of the orchestrator: a batch and a mode are drawn, parse_data runs *)

Init ==
  /\ mode \in {parse_mode_exp, parse_mode_back}
  /\ filenames \in Batches(IF mode = parse_mode_exp THEN ExpPaths ELSE BcPaths, MaxBatch)
  /\ bc_errors = <<>>
  /\ ret = NoRet
  /\ default_bc_errors = InitialDefault
  /\ custom = NoCustom
  /\ bc_file = "none"
  /\ file = <<>>
  /\ pcall = NoCall
  /\ pres = NoResult

ParseData ==
  /\ ret.status = "none"
  /\ \E errors \in IF mode = parse_mode_exp THEN {default_bc_errors} ELSE CallerTables(default_bc_errors) :
       /\ bc_errors' = errors
       /\ ret' = parse_data(filenames, mode, errors)
  /\ UNCHANGED <<filenames, mode, mvars, pvars>>

Next == ParseData

Spec == Init /\ [][Next]_vars

-----------------------------------------------------------------------------
(* Properties of the orchestrator *)

Entries == 1..Len(filenames)

ModuleAt(k) == filenames[k][1]

PathAt(k) == filenames[k][2]

BcCall == mode = parse_mode_back /\ ret.status # "none"

ExpCall == mode = parse_mode_exp /\ ret.status # "none"

\* the failures of loading one back-calculated file: missing file, text that is
\* no JSON, no 'format' key for PRE and NOE, content that cannot be tabulated,
\* no entry for the module in the uncertainty table
LoadFails(module, fpath, errors) ==
  \/ ~Exists(fpath)
  \/ fpath \notin DOMAIN JsonFiles
  \/ module \in {pre_name, noe_name} /\ ~has_key(JsonFiles[fpath], "format")
  \/ LET raw == IF module \in {pre_name, noe_name} THEN del_key(JsonFiles[fpath], "format")
                ELSE JsonFiles[fpath]
     IN raw = <<>> \/ tabulate(raw).exc # "none"
  \/ Key(module) \notin DOMAIN errors

FailsAt(k) == LoadFails(ModuleAt(k), PathAt(k), bc_errors)

\* C1: in back-calculated mode parse_data returns whichever modalities fail to
\* load and wherever they stand in the batch; each failing modality adds one
\* entry to the error log and has no key in the mapping, every other modality
\* has its Container.
C1_BackCalculatedFailuresIsolated ==
  BcCall =>
    /\ ret.status = "returned"
    /\ Len(ret.errlogs) = Cardinality({k \in Entries : FailsAt(k)})
    /\ \A k \in Entries :
         IF FailsAt(k) THEN ModuleAt(k) \notin DOMAIN ret.parsed
         ELSE ModuleAt(k) \in DOMAIN ret.parsed /\ ret.parsed[ModuleAt(k)].name = ModuleAt(k)

\* a batch whose first modality lacks its uncertainty entry and whose second loads
C1_Witness ==
  /\ BcCall
  /\ Len(filenames) = 2
  /\ Exists(PathAt(1)) /\ PathAt(1) \in DOMAIN JsonFiles /\ Key(ModuleAt(1)) \notin DOMAIN bc_errors
  /\ ~FailsAt(2)
  /\ Len(ret.errlogs) = 1
  /\ DOMAIN ret.parsed = {ModuleAt(2)}

\* the failure that leaves the experimental loop at entry k, "none" when there is none:
\* a format mismatch leaves it only when the generic parse of the same file fails
EntryFailure(k) ==
  LET t == exp_try(ModuleAt(k), PathAt(k)) IN
  IF t.exc = "TypeError" THEN read_csv(PathAt(k)).exc ELSE t.exc

\* C2: in experimental mode the format mismatch of a stripped-dialect parser is the
\* only failure recovered from, by parsing the same file as a comma-delimited table;
\* any other failure, that of the fallback parse included, leaves parse_data, which
\* then returns neither a mapping nor an error log, whatever was parsed before.
C2_OnlyFormatMismatchRecovered ==
  ExpCall =>
    /\ (ret.status = "raised") = (\E k \in Entries : EntryFailure(k) # "none")
    /\ ret.status = "raised" =>
         /\ ret.parsed = NoParsed /\ ret.errlogs = <<>>
         /\ \E k \in Entries : /\ EntryFailure(k) = ret.exc
                               /\ ret.exc # "none"
                               /\ \A j \in 1..(k - 1) : EntryFailure(j) = "none"
    /\ ret.status = "returned" =>
         \A k \in Entries :
           exp_try(ModuleAt(k), PathAt(k)).exc = "TypeError"
             => ret.parsed[ModuleAt(k)].data = read_csv(PathAt(k)).table

\* a first modality parsed, then one whose fallback parse fails
C2_Witness ==
  /\ ExpCall
  /\ Len(filenames) = 2
  /\ EntryFailure(1) = "none"
  /\ exp_try(ModuleAt(2), PathAt(2)).exc = "TypeError"
  /\ read_csv(PathAt(2)).exc = "ParserError"
  /\ ret.status = "raised"
  /\ ret.exc = "ParserError"

\* C6: a returned Container has mu jc_bc_mu exactly when the call was in
\* back-calculated mode and the Container is J-coupling's; every other has mu None.
C6_MuOnlyForBackCalculatedJc ==
  ret.status = "returned" =>
    \A m \in DOMAIN ret.parsed :
      ret.parsed[m].mu = IF mode = parse_mode_back /\ m = jc_name THEN jc_bc_mu ELSE None

C6_Witness ==
  /\ BcCall
  /\ DOMAIN ret.parsed = {jc_name, rdc_name}
  /\ ret.parsed[jc_name].mu = jc_bc_mu

\* C7: in experimental mode, whenever parse_data returns, the mapping has exactly
\* the input's modality keys, each bound to a Container of that name, and the
\* error log is empty.
C7_ExperimentalKeysAndEmptyLog ==
  (ExpCall /\ ret.status = "returned") =>
    /\ DOMAIN ret.parsed = {ModuleAt(k) : k \in Entries}
    /\ \A m \in DOMAIN ret.parsed : ret.parsed[m].name = m
    /\ ret.errlogs = <<>>

\* scattering from a generic file and chemical shift from a stripped file
C7_Witness ==
  /\ ExpCall
  /\ filenames = <<<<saxs_name, "generic.csv">>, <<cs_name, "full.star">>>>
  /\ ret.status = "returned"
  /\ DOMAIN ret.parsed = {saxs_name, cs_name}

-----------------------------------------------------------------------------
(* parse_bc_errors *)

OverrideFiles ==
  [p \in {"pre.txt", "fret_cs.txt", "noe_blank.txt"} |->
     CASE p = "pre.txt" -> <<<<"pre", " ", "0", ".", "0", "0", "3", "\n">>>>
       [] p = "fret_cs.txt" ->
            <<<<"fret", " ", "0", ".", "0", "0", "4", "\n">>,
              <<"cs", " ", "{", "'C'", ":", "1", ".", "2", ",", "'CA'", ":", "0", ".", "8", "4", "}", "\n">>>>
       [] p = "noe_blank.txt" -> <<<<"noe", " ", "0", ".", "0", "0", "2", "\n">>, <<"\n">>>>]

OverridePaths == DOMAIN OverrideFiles \cup {MissingPath}

Scalar(v) == [kind |-> "scalar", val |-> v]

\* one item key:number of a dict literal
IsItem(it) == LET kv == split_sep(it, ":") IN Len(kv) = 2 /\ Len(kv[1]) = 1 /\ IsFloatText(kv[2])

IsDictLiteral(tok) ==
  /\ Len(tok) >= 2 /\ tok[1] = "{" /\ tok[Len(tok)] = "}"
  /\ LET items == split_sep(SubSeq(tok, 2, Len(tok) - 1), ",") IN
     \A k \in 1..Len(items) : IsItem(items[k])

\* ast.literal_eval(text) for a dict literal of numbers: the mapping it denotes
literal_eval(tok) ==
  LET items == split_sep(SubSeq(tok, 2, Len(tok) - 1), ",") IN
  [kind |-> "dict",
   map |-> {<<split_sep(items[k], ":")[1], FloatVal(split_sep(items[k], ":")[2])>> : k \in 1..Len(items)}]

Set(table, key, value) == [k \in DOMAIN table \cup {key} |-> IF k = key THEN value ELSE table[k]]

\* one pass of the loop over the lines, on the table custom_bc_errors names: a line
\* of fewer than two tokens is an IndexError; text that float rejects goes to
\* ast.literal_eval, which raises on text that is no literal
bc_errors_line(table, line) ==
  LET splitted == split_ws(line) IN
  IF Len(splitted) < 2 THEN [exc |-> "IndexError", table |-> table]
  ELSE IF IsFloatText(splitted[2])
  THEN [exc |-> "none", table |-> Set(table, splitted[1], Scalar(FloatVal(splitted[2])))]
  ELSE IF IsDictLiteral(splitted[2])
  THEN [exc |-> "none", table |-> Set(table, splitted[1], literal_eval(splitted[2]))]
  ELSE [exc |-> "ValueError", table |-> table]

RECURSIVE bc_errors_lines(_, _, _)
bc_errors_lines(table, lines, k) ==
  IF k > Len(lines) THEN [exc |-> "none", table |-> table]
  ELSE LET r == bc_errors_line(table, lines[k]) IN
       IF r.exc # "none" THEN r ELSE bc_errors_lines(r.table, lines, k + 1)

\* parse_bc_errors(fpath) with the module's default table holding `default`:
\* custom_bc_errors = default_bc_errors names the default table itself, so the
\* assignments of the loop are made to it.  [exc, table, ref]: the exception, the
\* default table afterwards, and the object returned
parse_bc_errors(default, fpath) ==
  IF fpath \notin DOMAIN OverrideFiles THEN [exc |-> "FileNotFoundError", table |-> default, ref |-> "none"]
  ELSE LET r == bc_errors_lines(default, OverrideFiles[fpath], 1) IN
       [exc |-> r.exc, table |-> r.table, ref |-> IF r.exc = "none" THEN "default_bc_errors" ELSE "none"]

-----------------------------------------------------------------------------
(* Specification of the merger: override files are merged in any order, and      *)
(* back-calculated files are parsed with the default argument or the table       *)
(* parse_bc_errors returned                                                       *)

InitMerger ==
  /\ mode = parse_mode_back
  /\ filenames \in Batches({"nested.json"}, MaxBatch)
  /\ bc_errors = <<>>
  /\ ret = NoRet
  /\ default_bc_errors = InitialDefault
  /\ custom = NoCustom
  /\ bc_file = "none"
  /\ file = <<>>
  /\ pcall = NoCall
  /\ pres = NoResult

ParseBcErrors ==
  /\ \E fpath \in OverridePaths :
       LET r == parse_bc_errors(default_bc_errors, fpath) IN
       /\ default_bc_errors' = r.table
       /\ custom' = [exc |-> r.exc, ref |-> r.ref]
       /\ bc_file' = fpath
  /\ ret' = NoRet
  /\ bc_errors' = <<>>
  /\ UNCHANGED <<filenames, mode, pvars>>

\* parse_data(filenames, mode): bc_errors is the default table
ParseDataDefaultArg ==
  /\ bc_errors' = default_bc_errors
  /\ ret' = [parse_data(filenames, mode, default_bc_errors) EXCEPT !.exc = "default argument"]
  /\ UNCHANGED <<filenames, mode, mvars, pvars>>

\* parse_data(filenames, mode, custom) with the table parse_bc_errors returned
ParseDataCustomArg ==
  /\ custom.ref = "default_bc_errors"
  /\ bc_errors' = default_bc_errors
  /\ ret' = [parse_data(filenames, mode, default_bc_errors) EXCEPT !.exc = "custom argument"]
  /\ UNCHANGED <<filenames, mode, mvars, pvars>>

NextMerger == ParseBcErrors \/ ParseDataDefaultArg \/ ParseDataCustomArg

SpecMerger == InitMerger /\ [][NextMerger]_vars

-----------------------------------------------------------------------------
(* Properties of the merger *)

\* C4: parse_bc_errors never changes the process-wide default table, and what it
\* returns is a copy, not the default table itself; parse_data called with the
\* default argument attaches the original default sigmas.
C4_DefaultNeverMutated ==
  /\ default_bc_errors = InitialDefault
  /\ custom.ref # "default_bc_errors"
  /\ (ret.status = "returned" /\ ret.exc = "default argument") =>
       \A m \in DOMAIN ret.parsed : ret.parsed[m].sigma = InitialDefault[Key(m)]

NamedAt(fpath, key) == {k \in 1..Len(OverrideFiles[fpath]) : split_ws(OverrideFiles[fpath][k])[1] = key}

\* the value on the last line of the file that names key
ValueIn(fpath, key) ==
  LET k == CHOOSE i \in NamedAt(fpath, key) : \A j \in NamedAt(fpath, key) : j <= i
      tok == split_ws(OverrideFiles[fpath][k])[2]
  IN IF IsFloatText(tok) THEN Scalar(FloatVal(tok)) ELSE literal_eval(tok)

Expected(fpath, key) == IF NamedAt(fpath, key) # {} THEN ValueIn(fpath, key) ELSE InitialDefault[key]

\* C5: the table returned for an override file maps each modality the file names
\* to the value on its line and every other modality to its default sigma, for
\* every call of any sequence of calls; the Containers built from the returned
\* table carry those sigmas.
C5_ReturnedTableIsFilePlusDefaults ==
  custom.ref = "default_bc_errors" =>
    /\ \A key \in DOMAIN default_bc_errors :
         /\ NamedAt(bc_file, key) # {} \/ key \in DOMAIN InitialDefault
         /\ default_bc_errors[key] = Expected(bc_file, key)
    /\ (ret.status = "returned" /\ ret.exc = "custom argument") =>
         \A m \in DOMAIN ret.parsed : ret.parsed[m].sigma = Expected(bc_file, Key(m))

\* what holds of the first call only
C5_FirstCallOnly ==
  [][(default_bc_errors = InitialDefault /\ custom'.ref = "default_bc_errors")
       => \A key \in DOMAIN default_bc_errors' : default_bc_errors'[key] = Expected(bc_file', key)]_vars

====
